---- MODULE Spec2Model ----
(***************************************************************************)
(* Embedding cache of the graphene plugin (src/EmbeddingService.ts, first  *)
(* class of the file) together with the settings-tab handlers that drive   *)
(* it (src/main.ts, src/GraphSettings.ts).                                 *)
(*                                                                         *)
(* Every action is one synchronous segment of an async handler: the code   *)
(* between two awaits.  A vector is a sequence; only its length matters    *)
(* to the cache.  Time is the millisecond clock read by Date.now(); file   *)
(* modification times are stamps of the same clock.                        *)
(***************************************************************************)
EXTENDS Integers, Sequences, FiniteSets, TLC

(* ---------------- bounds of the model ---------------- *)
NumFiles == 2
MaxTime == 2
BatchFiles == 11
MaxUserActions == 4
Precision == 5
NumNodes == 5
MaxLinksCap == 2
MaxDim == 2
MaxComp == 2
\* lines of a content and tokens of a line given to the normaliser; the
\* largest word skip and the largest small word limit; calls in a row
MaxLines == 2
MaxTokens == 2
MaxSkip == 1
MaxWordLimit == 2
MaxPasses == 2

(* ---------------- program constants ---------------- *)
batchSize == 10

\* wordLimit: number = 100 (EmbeddingService.ts line 345)
defaultWordLimit == 100

(* ---------------- numbers ---------------- *)

\* A number of the program is a binary floating-point value m * 2^e with a
\* significand of Precision bits (2^(Precision-1) <= |m| < 2^Precision, or
\* m = 0 and e = 0); every operation rounds its exact result to the nearest
\* such value, ties to even.  The exponent range is not bounded.
Abs(i) == IF i < 0 THEN -i ELSE i

Sign(i) == IF i < 0 THEN -1 ELSE IF i > 0 THEN 1 ELSE 0

Zero == <<0, 0>>

\* a / d brought into [2^(Precision-1), 2^Precision), a > 0 and d > 0
RECURSIVE Scale(_, _, _)
Scale(a, d, e) ==
    IF a >= d * 2^Precision THEN Scale(a, 2 * d, e + 1)
    ELSE IF a < d * 2^(Precision - 1) THEN Scale(2 * a, d, e - 1)
    ELSE <<a, d, e>>

\* the integer nearest to q + r / d, ties to even (0 <= r < d)
NearestInt(q, r, d) ==
    IF 2 * r > d \/ (2 * r = d /\ q % 2 = 1) THEN q + 1 ELSE q

\* sg * m * 2^e for a rounded significand m, which may have reached
\* 2^Precision
Normal(sg, m, e) ==
    IF m = 2^Precision THEN <<sg * 2^(Precision - 1), e + 1>>
    ELSE <<sg * m, e>>

\* the number nearest to sg * (t[1] / t[2]) * 2^t[3], t as Scale gives it
RoundScaled(sg, t) ==
    Normal(sg, NearestInt(t[1] \div t[2], t[1] % t[2], t[2]), t[3])

\* the number nearest to the rational n / d, d > 0
RoundQ(n, d) ==
    IF n = 0 THEN Zero ELSE RoundScaled(Sign(n), Scale(Abs(n), d, 0))

\* x * 2^k
Shift(x, k) == IF x[1] = 0 THEN Zero ELSE <<x[1], x[2] + k>>

FromInt(i) == RoundQ(i, 1)

FNeg(x) == <<-x[1], x[2]>>

\* x + y; an operand more than Precision + 1 binary places below the other
\* does not change it
FAdd(x, y) ==
    IF x[1] = 0 THEN y
    ELSE IF y[1] = 0 THEN x
    ELSE IF x[2] - y[2] >= Precision + 2 THEN x
    ELSE IF y[2] - x[2] >= Precision + 2 THEN y
    ELSE LET e == IF x[2] < y[2] THEN x[2] ELSE y[2]
         IN Shift(RoundQ(x[1] * 2^(x[2] - e) + y[1] * 2^(y[2] - e), 1), e)

FSub(x, y) == FAdd(x, FNeg(y))

FMul(x, y) == Shift(RoundQ(x[1] * y[1], 1), x[2] + y[2])

\* x / y for y # 0
FDiv(x, y) ==
    Shift(RoundQ(Sign(y[1]) * x[1], Abs(y[1])), x[2] - y[2])

FLess(x, y) ==
    IF Sign(x[1]) # Sign(y[1]) THEN Sign(x[1]) < Sign(y[1])
    ELSE IF x[1] = 0 THEN FALSE
    ELSE IF x[1] > 0 THEN x[2] < y[2] \/ (x[2] = y[2] /\ x[1] < y[1])
    ELSE x[2] > y[2] \/ (x[2] = y[2] /\ x[1] < y[1])

FGeq(x, y) == ~FLess(x, y)

One == FromInt(1)

\* Math.sqrt(x) for x >= 0: the significand is scaled by a power of 4 until
\* its root has Precision bits; a root is never half way between two numbers
RECURSIVE SqrtScale(_, _)
SqrtScale(a, e) ==
    IF e % 2 # 0 THEN SqrtScale(2 * a, e - 1)
    ELSE IF a < 2^(2 * Precision - 2) THEN SqrtScale(4 * a, e - 2)
    ELSE <<a, e>>

\* the integer part of the root of a, for 2^(2 * Precision - 2) <= a
IntSqrt(a) ==
    CHOOSE k \in 2^(Precision - 1) .. 2^Precision - 1 :
        k * k <= a /\ a < (k + 1) * (k + 1)

\* the integer nearest to the root of a, whose integer part is q
NearestRoot(a, q) == IF a > q * q + q THEN q + 1 ELSE q

\* the number nearest to the root of t[1] * 2^t[2], t as SqrtScale gives it
RootScaled(t) == Normal(1, NearestRoot(t[1], IntSqrt(t[1])), t[2] \div 2)

FSqrt(x) ==
    IF x[1] = 0 THEN Zero ELSE RootScaled(SqrtScale(x[1], x[2]))

\* the values that are not numbers of the form above: NaN and the two
\* infinities, written with significands no number has
NaN == <<0, 1>>

Infinity == <<1, 0>>

NegInfinity == <<-1, 0>>

isFinite(x) == x \notin {NaN, Infinity, NegInfinity}

\* x / y for finite x and y: 0 / 0 is NaN and x / 0 an infinity of the sign
\* of x
IeeeDiv(x, y) ==
    IF y # Zero THEN FDiv(x, y)
    ELSE IF x = Zero THEN NaN
    ELSE IF x[1] > 0 THEN Infinity ELSE NegInfinity

\* x * y for finite y: NaN stays NaN, an infinity times 0 is NaN
IeeeMul(x, y) ==
    IF isFinite(x) THEN FMul(x, y)
    ELSE IF x = NaN \/ y = Zero THEN NaN
    ELSE IF y[1] > 0 THEN x
    ELSE IF x = Infinity THEN NegInfinity ELSE Infinity

\* x + y for finite x: NaN and the infinities absorb it
IeeeAdd(x, y) == IF isFinite(y) THEN FAdd(x, y) ELSE y

(* ---------------- cosine similarity ---------------- *)

\* lines 321-323: the length check throws
cosineThrows(vec1, vec2) == Len(vec1) # Len(vec2)

\* dotProduct, magnitude1 and magnitude2 after i rounds of the loop
\* (lines 325-333)
\* one round of the loop on the components a and b (lines 329-331)
addProducts(s, a, b) ==
    <<FAdd(s[1], FMul(a, b)), FAdd(s[2], FMul(a, a)), FAdd(s[3], FMul(b, b))>>

RECURSIVE cosineSums(_, _, _)
cosineSums(vec1, vec2, i) ==
    IF i = 0 THEN <<Zero, Zero, Zero>>
    ELSE addProducts(cosineSums(vec1, vec2, i - 1),
                     FromInt(vec1[i]), FromInt(vec2[i]))

\* lines 338-342: 0 for a zero magnitude, else the quotient
quotient(dotProduct, magnitude1, magnitude2) ==
    IF magnitude1 = Zero \/ magnitude2 = Zero THEN Zero
    ELSE FDiv(dotProduct, FMul(magnitude1, magnitude2))

fromSumsNoRoot(s) == quotient(s[1], s[2], s[3])

\* the magnitudes are the roots of the sums of squares (lines 335-336)
fromSums(s) == quotient(s[1], FSqrt(s[2]), FSqrt(s[3]))

\* lines 325-342, for vectors of one length
calculateCosineSimilarity(vec1, vec2) ==
    fromSums(cosineSums(vec1, vec2, Len(vec1)))

Buttons == {"genAll", "update"}
Statuses == {"up-to-date", "modified", "new", "processing"}

\* payloads the local endpoint can answer with (data.embedding)
LocalVectors == {<<>>, <<1>>}
\* payloads of the OpenAI endpoint (data.data[0].embedding), another dimension
OpenAIVectors == {<<>>, <<1, 1>>}
\* errors thrown by the OpenAI path: message with and without '429'
ProviderErrors == {"e429", "other"}
\* of these, the quota error
QuotaErrors == {"e429"}

VARIABLES now, mtime, cache, disk, useLocal, run, clearPc,
          displayed, genAllDisabled, updBtn, outcome, userActions

\* the graph view: the vectors of data.json, the resolved [[links]] of the
\* vault, the plugin settings, the nodes and links of the view and the
\* loadGraphData call in flight
VARIABLES stored, manual, settings, nodes, links, load

gvars == <<stored, manual, settings, nodes, links, load>>

\* the text normaliser: the content of the file that was read, the wordLimit
\* argument of the call, the settings the call reads, and the texts returned
\* so far, the latest last
VARIABLES content, wordLimit, textSettings, cleanedText

tvars == <<content, wordLimit, textSettings, cleanedText>>

\* the state of the embedding service and of the settings tab
cvars == <<now, mtime, cache, disk, useLocal, run, clearPc,
           displayed, genAllDisabled, updBtn, outcome, userActions>>

vars == <<now, mtime, cache, disk, useLocal, run, clearPc,
          displayed, genAllDisabled, updBtn, outcome, userActions,
          stored, manual, settings, nodes, links, load,
          content, wordLimit, textSettings, cleanedText>>

\* a click, a settings change or a reload of the plugin by the user
UserAction ==
    /\ userActions < MaxUserActions
    /\ userActions' = userActions + 1

\* the markdown files of the vault, in enumeration order
vaultFiles == DOMAIN mtime

EmptyMap == [k \in {} |-> 0]

EmptyCache == [files |-> EmptyMap, embeddings |-> EmptyMap]

\* contents of embedding-cache.json that JSON.parse rejects
Unparsable == [syntaxError |-> TRUE]

\* contents that parse to an object with neither files nor embeddings
NoFieldsFile == [version |-> "1.0.0"]

\* JSON.parse returns a value for the contents
parses(f) == "syntaxError" \notin DOMAIN f

\* c.files and c.embeddings are objects
hasShape(c) == {"files", "embeddings"} \subseteq DOMAIN c

\* m with key k bound to v (m[k] = v in the source)
Put(m, k, v) == [x \in DOMAIN m \cup {k} |-> IF x = k THEN v ELSE m[x]]

getFileStatusGE(c, path, mt) ==
    IF path \notin DOMAIN c.files THEN "new"
    ELSE IF mt >= c.files[path].embeddingGenerated THEN "modified"
    ELSE "up-to-date"

getFileStatus(c, path, mt) ==
    IF path \notin DOMAIN c.files THEN "new"
    ELSE IF mt > c.files[path].embeddingGenerated THEN "modified"
    ELSE "up-to-date"

\* stats.modified + stats.new of getEmbeddingStats
needsUpdateCount(c) ==
    Cardinality({f \in vaultFiles :
                    getFileStatus(c, f, mtime[f]) \in {"new", "modified"}})

\* the button updateEmbeddingStatusUI leaves in the status element
StatusButton(c) ==
    IF ~displayed THEN updBtn
    ELSE IF needsUpdateCount(c) > 0 THEN "enabled" ELSE "none"

\* files of the vault needing an update, in enumeration order
RECURSIVE scanFrom(_, _)
scanFrom(c, f) ==
    IF f \notin vaultFiles THEN <<>>
    ELSE (IF getFileStatus(c, f, mtime[f]) \in {"new", "modified"}
          THEN <<f>> ELSE <<>>) \o scanFrom(c, f + 1)

scanNeedsUpdate(c) == scanFrom(c, 1)

beginProcessing(c, path, mt, t) ==
    [c EXCEPT !.files = Put(@, path,
        [path |-> path, lastModified |-> mt,
         embeddingGenerated |-> t, status |-> "processing"])]

storeVector(c, path, vec) ==
    [c EXCEPT !.embeddings = Put(@, path, vec)]

\* lines 173-174, the record exists
markUpToDate(c, path, t) ==
    [c EXCEPT !.files[path].status = "up-to-date",
              !.files[path].embeddingGenerated = t]

markModified(c, path) ==
    [c EXCEPT !.files[path].status = "modified"]

acceptsEmbeddingAny(vec) == TRUE

\* embedding && embedding.length > 0
acceptsEmbedding(vec) == Len(vec) > 0

savesPeriodicallyNever(n) == FALSE

\* processed % 10 === 0 (line 187)
savesPeriodically(n) == n % batchSize = 0

stopsRunNever(err) == FALSE

\* error.message && error.message.includes('429')
stopsRun(err) == err = "e429"

\* onProgress(processed + failed, needsUpdate.length, file.basename)
\* (lines 182-184): the done values handed to the callback, in order
reportProgress(calls, done) == Append(calls, done)

\* a handler instance at rest; while a run is under way, scanned holds the
\* modification times the scan of lines 127-141 saw, and readVersion, from
\* vault.read to the end of the iteration, the modification time of the
\* content that was read (line 161)
IdleRun ==
    [pc |-> "idle", button |-> "none", needsUpdate |-> <<>>, idx |-> 0, processed |-> 0,
     failed |-> 0, writing |-> <<>>,
     touched |-> {}, quotaAt |-> 0, progress |-> <<>>, scanned |-> <<>>,
     readVersion |-> 0]

currentPath(r) == run[r].needsUpdate[run[r].idx]

\* the handler instances that can be in flight
Runs == DOMAIN run

\* the settings of DEFAULT_SETTINGS that the graph build reads
DefaultSettings ==
    [useEmbeddings |-> FALSE, similarityThreshold |-> RoundQ(7, 10),
     maxSimilarLinksPerNode |-> 12, dynamicSimilarityPruning |-> FALSE,
     minLinkThickness |-> RoundQ(1, 2), maxLinkThickness |-> FromInt(8)]

IdleLoad ==
    [pc |-> "idle", i |-> 0, nodeMap |-> <<>>, initialized |-> FALSE,
     prevNodes |-> <<>>, prevLinks |-> <<>>]

\* no graph view is open and data.json holds no vectors
NoView ==
    /\ stored = EmptyMap
    /\ manual = {}
    /\ settings = DefaultSettings
    /\ nodes = <<>>
    /\ links = <<>>
    /\ load = IdleLoad

\* the settings of the text normaliser when none was changed (lines 347-348,
\* types.ts line 40)
DefaultTextSettings ==
    [embeddingWordSkip |-> 0, excludeHeadingsFromEmbedding |-> TRUE,
     embeddingWordLimit |-> defaultWordLimit]

\* no file was read yet
NoText ==
    /\ content = <<<<>>>>
    /\ wordLimit = defaultWordLimit
    /\ textSettings = DefaultTextSettings
    /\ cleanedText = <<>>

InitVault(n, slots) ==
    /\ now = 1
    /\ mtime = [f \in 1..n |-> 0]
    /\ cache = EmptyCache
    /\ disk = <<>>
    /\ useLocal = FALSE
    /\ run = [r \in slots |-> IdleRun]
    /\ clearPc = "idle"
    /\ displayed = FALSE
    /\ genAllDisabled = FALSE
    /\ updBtn = "none"
    /\ outcome = [f \in 1..n |-> "none"]
    /\ userActions = 0
    /\ NoView
    /\ NoText

\* one button handler in flight at a time
Init == InitVault(NumFiles, {1})

(* ---------------- the generation run ---------------- *)

\* top of a loop iteration for the file at position i (lines 149-161):
\* the record is replaced, the status callback runs, vault.read is issued
BeginIter(r, i, c, rr) ==
    LET path == rr.needsUpdate[i]
        c1 == beginProcessing(c, path, mtime[path], now)
    IN /\ cache' = c1
       /\ updBtn' = StatusButton(c1)
       /\ outcome' = [outcome EXCEPT ![path] = "none"]
       /\ run' = [run EXCEPT ![r] =
                    [rr EXCEPT !.pc = "read", !.idx = i,
                               !.touched = @ \cup {path}]]

\* the loop has ended (exhausted or break): saveCache is issued (line 210)
IssueFinalSave(r, c, rr) ==
    /\ cache' = c
    /\ run' = [run EXCEPT ![r] = [rr EXCEPT !.pc = "finalsave",
                                            !.writing = <<c>>]]
    /\ UNCHANGED <<updBtn, outcome>>

\* the for statement advancing after an iteration
Continue(r, c, rr) ==
    IF rr.idx < Len(rr.needsUpdate)
    THEN BeginIter(r, rr.idx + 1, c, rr)
    ELSE IssueFinalSave(r, c, rr)

\* the catch block (lines 194-206) entered with cache value c
Catch(r, c, err) ==
    LET path == currentPath(r)
        rr == [run[r] EXCEPT !.failed = @ + 1, !.readVersion = 0,
                   !.quotaAt = IF err = "e429" THEN run[r].idx ELSE @]
    IN IF stopsRun(err)
       THEN /\ cache' = c
            /\ run' = [run EXCEPT ![r] = [rr EXCEPT !.pc = "finalsave",
                                                    !.writing = <<c>>]]
            /\ outcome' = [outcome EXCEPT ![path] = "quota"]
            /\ UNCHANGED updBtn
       ELSE IF path \in DOMAIN c.files
       THEN LET c1 == markModified(c, path)
                o1 == [outcome EXCEPT ![path] = "error"]
            IN IF rr.idx < Len(rr.needsUpdate)
               THEN LET nxt == rr.needsUpdate[rr.idx + 1]
                        c2 == beginProcessing(c1, nxt, mtime[nxt], now)
                    IN /\ cache' = c2
                       /\ updBtn' = StatusButton(c2)
                       /\ outcome' = [o1 EXCEPT ![nxt] = "none"]
                       /\ run' = [run EXCEPT ![r] =
                             [rr EXCEPT !.pc = "read", !.idx = @ + 1,
                                        !.touched = @ \cup {nxt}]]
               ELSE /\ cache' = c1
                    /\ outcome' = o1
                    /\ run' = [run EXCEPT ![r] =
                          [rr EXCEPT !.pc = "finalsave", !.writing = <<c1>>]]
                    /\ UNCHANGED updBtn
       \* the record is gone: the assignment of line 205 throws out of the
       \* catch block and the promise of the run rejects
       ELSE /\ cache' = c
            /\ run' = [run EXCEPT ![r] = [rr EXCEPT !.pc = "crashed"]]
            /\ outcome' = [outcome EXCEPT ![path] = "error"]
            /\ UNCHANGED updBtn

\* a button handler calls generateEmbeddings (GraphSettings.ts 290-293,
\* main.ts 236-239): the button is disabled and the run scans the vault
Start(r, b) ==
    /\ UserAction
    /\ UNCHANGED <<gvars, tvars>>
    /\ displayed
    /\ run[r].pc \in {"idle", "crashed"}
    /\ IF b = "genAll" THEN ~genAllDisabled ELSE updBtn = "enabled"
    /\ genAllDisabled' = (IF b = "genAll" THEN TRUE ELSE genAllDisabled)
    /\ IF ~hasShape(cache)
       \* getFileStatus throws a TypeError at line 83 during the scan: the
       \* promise of the run rejects and the handler never resumes
       THEN /\ run' = [run EXCEPT ![r] =
                         [IdleRun EXCEPT !.pc = "crashed", !.button = b]]
            /\ UNCHANGED <<cache, outcome, updBtn>>
       ELSE
       LET nu == scanNeedsUpdate(cache)
           rr == [IdleRun EXCEPT !.needsUpdate = nu, !.button = b,
                                 !.scanned = mtime]
       IN IF nu = <<>>
          THEN /\ run' = [run EXCEPT ![r] = [rr EXCEPT !.pc = "sync"]]
               /\ updBtn' = (IF b = "update" THEN "disabled" ELSE updBtn)
               /\ UNCHANGED <<cache, outcome>>
          ELSE BeginIter(r, 1, cache, rr)
    /\ UNCHANGED <<now, mtime, disk, useLocal, clearPc, displayed>>

\* vault.read returns; the text is normalised and getEmbedding is called,
\* which issues its first fetch (lines 161-167, 229-238)
ReadOk(r) ==
    /\ UNCHANGED userActions
    /\ UNCHANGED <<gvars, tvars>>
    /\ run[r].pc = "read"
    /\ run' = [run EXCEPT ![r].pc = IF useLocal THEN "local" ELSE "openai",
                          ![r].readVersion = mtime[currentPath(r)]]
    /\ UNCHANGED <<now, mtime, cache, disk, useLocal, clearPc,
                   displayed, genAllDisabled, updBtn, outcome>>

\* vault.read rejects
ReadFail(r) ==
    /\ UNCHANGED userActions
    /\ UNCHANGED <<gvars, tvars>>
    /\ run[r].pc = "read"
    /\ Catch(r, cache, "other")
    /\ UNCHANGED <<now, mtime, disk, useLocal, clearPc,
                   displayed, genAllDisabled>>

\* the local endpoint fails or answers with no array: getEmbedding falls
\* through to the OpenAI request (lines 239-251, 258-269)
LocalFail(r) ==
    /\ UNCHANGED userActions
    /\ UNCHANGED <<gvars, tvars>>
    /\ run[r].pc = "local"
    /\ run' = [run EXCEPT ![r].pc = "openai"]
    /\ UNCHANGED <<now, mtime, cache, disk, useLocal, clearPc,
                   displayed, genAllDisabled, updBtn, outcome>>

\* getEmbedding rejects (lines 254-256, 271-274, 283-286)
OpenAIThrow(r, err) ==
    /\ UNCHANGED userActions
    /\ UNCHANGED <<gvars, tvars>>
    /\ run[r].pc = "openai"
    /\ Catch(r, cache, err)
    /\ UNCHANGED <<now, mtime, disk, useLocal, clearPc,
                   displayed, genAllDisabled>>

\* getEmbedding resolves with vec (lines 167-192)
Resolve(r, vec) ==
    /\ UNCHANGED userActions
    /\ UNCHANGED <<gvars, tvars>>
    /\ LET path == currentPath(r)
       IN IF acceptsEmbedding(vec)
          THEN LET c1 == storeVector(cache, path, vec)
               IN IF path \in DOMAIN cache.files
                  THEN LET c2 == markUpToDate(c1, path, now)
                           p1 == run[r].processed + 1
                       IN /\ cache' = c2
                          /\ outcome' = [outcome EXCEPT ![path] = "ok"]
                          /\ run' = [run EXCEPT ![r].processed = p1,
                                ![r].readVersion = 0,
                                ![r].progress = reportProgress(@, p1 + run[r].failed),
                                ![r].pc = IF savesPeriodically(p1)
                                          THEN "save" ELSE "delay",
                                ![r].writing = IF savesPeriodically(p1)
                                               THEN <<c2>> ELSE <<>>]
                          /\ UNCHANGED updBtn
                  \* line 173 throws a TypeError after line 172 stored
                  \* the vector; the catch block runs
                  ELSE Catch(r, c1, "other")
          ELSE /\ outcome' = [outcome EXCEPT ![path] = "empty"]
               /\ run' = [run EXCEPT ![r].failed = @ + 1,
                     ![r].readVersion = 0,
                     ![r].progress = reportProgress(@,
                                        run[r].processed + run[r].failed + 1),
                     ![r].pc = IF savesPeriodically(run[r].processed)
                               THEN "save" ELSE "delay",
                     ![r].writing = IF savesPeriodically(run[r].processed)
                                    THEN <<cache>> ELSE <<>>]
               /\ UNCHANGED <<cache, updBtn>>
    /\ UNCHANGED <<now, mtime, disk, useLocal, clearPc,
                   displayed, genAllDisabled>>

\* the local endpoint answers with an array (lines 243-247)
LocalReturn(r, vec) ==
    /\ run[r].pc = "local"
    /\ Resolve(r, vec)

\* the OpenAI endpoint answers; the vector is normalised (lines 276-282)
OpenAIReturn(r, vec) ==
    /\ run[r].pc = "openai"
    /\ Resolve(r, vec)

\* the write of the periodic saveCache completes (line 188)
SaveDone(r) ==
    /\ UNCHANGED userActions
    /\ UNCHANGED <<gvars, tvars>>
    /\ run[r].pc = "save"
    /\ disk' = run[r].writing
    /\ run' = [run EXCEPT ![r].pc = "delay", ![r].writing = <<>>]
    /\ UNCHANGED <<now, mtime, cache, useLocal, clearPc,
                   displayed, genAllDisabled, updBtn, outcome>>

\* the 500 ms timer fires (line 192) and the loop goes on
DelayDone(r) ==
    /\ UNCHANGED userActions
    /\ UNCHANGED <<gvars, tvars>>
    /\ run[r].pc = "delay"
    /\ Continue(r, cache, run[r])
    /\ UNCHANGED <<now, mtime, disk, useLocal, clearPc,
                   displayed, genAllDisabled>>

\* the write of the final saveCache completes (lines 210-215)
FinalSaveDone(r) ==
    /\ UNCHANGED userActions
    /\ UNCHANGED <<gvars, tvars>>
    /\ run[r].pc = "finalsave"
    /\ disk' = run[r].writing
    /\ updBtn' = StatusButton(cache)
    /\ run' = [run EXCEPT ![r].pc = "sync", ![r].writing = <<>>]
    /\ UNCHANGED <<now, mtime, cache, useLocal, clearPc,
                   displayed, genAllDisabled, outcome>>

\* syncIncrementalEmbeddingsToData (main.ts 139-163): every non-empty
\* vector of the cache is copied into the embeddings of data.json, and no
\* entry of data.json is removed
syncIncrementalEmbeddingsToData(data, c) ==
    LET cacheEmbeddings == IF "embeddings" \in DOMAIN c
                           THEN c.embeddings ELSE EmptyMap
        copied == {p \in DOMAIN cacheEmbeddings : Len(cacheEmbeddings[p]) > 0}
    IN [p \in DOMAIN data \cup copied |->
           IF p \in copied THEN cacheEmbeddings[p] ELSE data[p]]

\* generateIncrementalEmbeddings has returned to generateEmbeddings, which
\* copies the vectors of the cache into data.json (main.ts 126-127) and
\* returns to the button handler, which re-enables its button and redraws
\* the status (GraphSettings.ts 294-296, main.ts 240-241)
HandlerDone(r) ==
    /\ UNCHANGED userActions
    /\ stored' = syncIncrementalEmbeddingsToData(stored, cache)
    /\ UNCHANGED <<manual, settings, nodes, links, load>>
    /\ UNCHANGED tvars
    /\ run[r].pc = "sync"
    /\ run' = [run EXCEPT ![r] = IdleRun]
    /\ genAllDisabled' = (IF run[r].button = "genAll" THEN FALSE
                          ELSE genAllDisabled)
    /\ updBtn' = StatusButton(cache)
    /\ UNCHANGED <<now, mtime, cache, disk, useLocal, clearPc,
                   displayed, outcome>>

(* ---------------- the other handlers ---------------- *)

\* the settings tab is opened: display() creates the buttons and the status
\* element (GraphSettings.ts 284-305); getEmbeddingStats throws out of
\* display() when the cache has no files object, leaving the element empty
Display ==
    /\ UserAction
    /\ UNCHANGED <<gvars, tvars>>
    /\ ~displayed
    /\ displayed' = TRUE
    /\ genAllDisabled' = FALSE
    /\ updBtn' = (IF hasShape(cache) /\ needsUpdateCount(cache) > 0
                  THEN "enabled" ELSE "none")
    /\ UNCHANGED <<now, mtime, cache, disk, useLocal, run, clearPc, outcome>>

\* 'Clear cache' is confirmed: clearCache replaces the cache and issues
\* saveCache (GraphSettings.ts 331-333, EmbeddingService.ts 218-224); the
\* button is created after the status element, so display() has returned
ClearCache ==
    /\ UserAction
    /\ UNCHANGED <<gvars, tvars>>
    /\ displayed
    /\ hasShape(cache)
    /\ clearPc = "idle"
    /\ cache' = EmptyCache
    /\ clearPc' = "saving"
    /\ outcome' = [f \in vaultFiles |-> "none"]
    /\ UNCHANGED <<now, mtime, disk, useLocal, run,
                   displayed, genAllDisabled, updBtn>>

\* the write issued by clearCache completes; the handler redraws the status
ClearSaveDone ==
    /\ UNCHANGED userActions
    /\ UNCHANGED <<gvars, tvars>>
    /\ clearPc = "saving"
    /\ disk' = <<EmptyCache>>
    /\ clearPc' = "idle"
    /\ updBtn' = StatusButton(cache)
    /\ UNCHANGED <<now, mtime, cache, useLocal, run,
                   displayed, genAllDisabled, outcome>>

\* 'Sync now' is clicked (GraphSettings.ts 308-322)
SyncNow ==
    /\ UserAction
    /\ displayed
    /\ stored' = syncIncrementalEmbeddingsToData(stored, cache)
    /\ updBtn' = StatusButton(cache)
    /\ UNCHANGED <<manual, settings, nodes, links, load>>
    /\ UNCHANGED tvars
    /\ UNCHANGED <<now, mtime, cache, disk, useLocal, run, clearPc,
                   displayed, genAllDisabled, outcome>>

\* the provider dropdown changes; saveSettings calls updateSettings
\* (GraphSettings.ts 76-81, main.ts 482-490, EmbeddingService.ts 37-44)
SetProvider ==
    /\ UserAction
    /\ UNCHANGED <<gvars, tvars>>
    /\ displayed
    /\ useLocal' = ~useLocal
    /\ UNCHANGED <<now, mtime, cache, disk, run, clearPc,
                   displayed, genAllDisabled, updBtn, outcome>>

\* the plugin is loaded again after the application stopped, at any point
\* of a run: onload builds a new service and calls loadCache
\* (main.ts 59-63, EmbeddingService.ts 14-27 and 46-62)
\* the cache of the constructor is kept when the file is missing or
\* JSON.parse throws; whatever JSON.parse returns is assigned otherwise
loadCache(d) ==
    IF d = <<>> \/ ~parses(d[1]) THEN EmptyCache ELSE d[1]

Restart ==
    /\ UserAction
    /\ UNCHANGED <<gvars, tvars>>
    /\ cache' = loadCache(disk)
    /\ run' = [r \in Runs |-> IdleRun]
    /\ clearPc' = "idle"
    /\ displayed' = FALSE
    /\ genAllDisabled' = FALSE
    /\ updBtn' = "none"
    /\ outcome' = [f \in vaultFiles |-> "none"]
    /\ UNCHANGED <<now, mtime, disk, useLocal>>

(* ---------------- the environment ---------------- *)

\* the millisecond clock advances
Tick ==
    /\ UNCHANGED userActions
    /\ UNCHANGED <<gvars, tvars>>
    /\ now < MaxTime
    /\ now' = now + 1
    /\ UNCHANGED <<mtime, cache, disk, useLocal, run, clearPc,
                   displayed, genAllDisabled, updBtn, outcome>>

\* the user edits a note: the vault stamps it with the current time
Modify(f) ==
    /\ UNCHANGED userActions
    /\ UNCHANGED <<gvars, tvars>>
    /\ mtime[f] < now
    /\ mtime' = [mtime EXCEPT ![f] = now]
    /\ UNCHANGED <<now, cache, disk, useLocal, run, clearPc,
                   displayed, genAllDisabled, updBtn, outcome>>

Next ==
    \/ Display
    \/ \E r \in Runs : \E b \in Buttons : Start(r, b)
    \/ \E r \in Runs : ReadOk(r)
    \/ \E r \in Runs : ReadFail(r)
    \/ \E r \in Runs : \E vec \in LocalVectors : LocalReturn(r, vec)
    \/ \E r \in Runs : LocalFail(r)
    \/ \E r \in Runs : \E vec \in OpenAIVectors : OpenAIReturn(r, vec)
    \/ \E r \in Runs : \E err \in ProviderErrors : OpenAIThrow(r, err)
    \/ \E r \in Runs : SaveDone(r)
    \/ \E r \in Runs : DelayDone(r)
    \/ \E r \in Runs : FinalSaveDone(r)
    \/ \E r \in Runs : HandlerDone(r)
    \/ ClearCache
    \/ ClearSaveDone
    \/ SetProvider
    \/ Restart
    \/ Tick
    \/ \E f \in vaultFiles : Modify(f)

Spec == Init /\ [][Next]_vars

\* a pending vault.read, provider request, cache write or timer of a run
\* completes
RunStep ==
    \E r \in Runs :
        \/ ReadOk(r)
        \/ ReadFail(r)
        \/ \E vec \in LocalVectors : LocalReturn(r, vec)
        \/ LocalFail(r)
        \/ \E vec \in OpenAIVectors : OpenAIReturn(r, vec)
        \/ \E err \in ProviderErrors : OpenAIThrow(r, err)
        \/ SaveDone(r)
        \/ DelayDone(r)
        \/ FinalSaveDone(r)

\* the same program when every provider call and every storage operation
\* eventually returns
SpecFair == Spec /\ WF_vars(RunStep)

\* two button handlers in flight, the clock standing still
InitRace == InitVault(NumFiles, {1, 2})

NextRace ==
    \/ Display
    \/ \E r \in Runs : \E b \in Buttons : Start(r, b)
    \/ \E r \in Runs : ReadOk(r)
    \/ \E r \in Runs : ReadFail(r)
    \/ \E r \in Runs : \E vec \in OpenAIVectors : OpenAIReturn(r, vec)
    \/ \E r \in Runs : \E err \in ProviderErrors : OpenAIThrow(r, err)
    \/ \E r \in Runs : SaveDone(r)
    \/ \E r \in Runs : DelayDone(r)
    \/ \E r \in Runs : FinalSaveDone(r)
    \/ \E r \in Runs : HandlerDone(r)

SpecRace == InitRace /\ [][NextRace]_vars

\* one run over a vault larger than a batch, the clock standing still; the
\* provider answers with a vector, with an empty vector or with the quota
\* error
InitBatch == InitVault(BatchFiles, {1})

NextBatch ==
    \/ Display
    \/ \E r \in Runs : \E b \in Buttons : Start(r, b)
    \/ \E r \in Runs : ReadOk(r)
    \/ \E r \in Runs : \E vec \in OpenAIVectors : OpenAIReturn(r, vec)
    \/ \E r \in Runs : \E err \in QuotaErrors : OpenAIThrow(r, err)
    \/ \E r \in Runs : SaveDone(r)
    \/ \E r \in Runs : DelayDone(r)
    \/ \E r \in Runs : FinalSaveDone(r)
    \/ \E r \in Runs : HandlerDone(r)

SpecBatch == InitBatch /\ [][NextBatch]_vars

\* the cache files the plugin can find when it is loaded
PersistedFiles == {<<>>, <<Unparsable>>, <<NoFieldsFile>>, <<EmptyCache>>}

\* the plugin loaded over any of these files; one handler, the clock
\* standing still, the OpenAI provider
InitLoad ==
    /\ disk \in PersistedFiles
    /\ cache = loadCache(disk)
    /\ now = 1
    /\ mtime = [f \in 1..NumFiles |-> 0]
    /\ useLocal = FALSE
    /\ run = [r \in {1} |-> IdleRun]
    /\ clearPc = "idle"
    /\ displayed = FALSE
    /\ genAllDisabled = FALSE
    /\ updBtn = "none"
    /\ outcome = [f \in 1..NumFiles |-> "none"]
    /\ userActions = 0
    /\ NoView
    /\ NoText

NextLoad ==
    \/ Display
    \/ \E r \in Runs : \E b \in Buttons : Start(r, b)
    \/ \E r \in Runs : ReadOk(r)
    \/ \E r \in Runs : ReadFail(r)
    \/ \E r \in Runs : \E vec \in OpenAIVectors : OpenAIReturn(r, vec)
    \/ \E r \in Runs : \E err \in ProviderErrors : OpenAIThrow(r, err)
    \/ \E r \in Runs : SaveDone(r)
    \/ \E r \in Runs : DelayDone(r)
    \/ \E r \in Runs : FinalSaveDone(r)
    \/ \E r \in Runs : HandlerDone(r)
    \/ Restart

SpecLoad == InitLoad /\ [][NextLoad]_vars

(* ---------------- the graph build ---------------- *)

manualLinkPairsOneWay(ls) ==
    {<<ls[k].source, ls[k].target>> :
        k \in {x \in 1..Len(ls) : ls[x].type = "manual-link"}}

\* the set built at lines 622-631: both directions of every manual link
manualLinkPairs(ls) ==
    UNION {{<<ls[k].source, ls[k].target>>, <<ls[k].target, ls[k].source>>} :
              k \in {x \in 1..Len(ls) : ls[x].type = "manual-link"}}

\* the index pairs whose similarity the sweep computes, in the order of the
\* two loops (lines 636-643)
RECURSIVE sweepFrom(_, _, _, _)
sweepFrom(na, mp, i, j) ==
    IF i > Len(na) THEN <<>>
    ELSE IF j > Len(na) THEN sweepFrom(na, mp, i + 1, i + 2)
    ELSE (IF /\ na[i].embedding # <<>>
             /\ na[j].embedding # <<>>
             /\ <<na[i].id, na[j].id>> \notin mp
          THEN <<<<i, j>>>> ELSE <<>>) \o sweepFrom(na, mp, i, j + 1)

\* calculateCosineSimilarity throws for one of these pairs (line 644)
sweepThrows(na, mp) ==
    LET cp == sweepFrom(na, mp, 1, 2)
    IN \E k \in 1..Len(cp) :
          cosineThrows(na[cp[k][1]].embedding[1], na[cp[k][2]].embedding[1])

meetsThresholdAlways(sim, th) == TRUE

\* similarity >= this.plugin.settings.similarityThreshold (line 645)
meetsThreshold(sim, th) == FGeq(sim, th)

\* the pairs pushed to perNodeCandidates, in sweep order (lines 644-650)
sweepCandidates(na, mp, th) ==
    LET cp == sweepFrom(na, mp, 1, 2)
        all == [k \in 1..Len(cp) |->
                  [a |-> na[cp[k][1]].id, b |-> na[cp[k][2]].id,
                   sim |-> calculateCosineSimilarity(
                               na[cp[k][1]].embedding[1],
                               na[cp[k][2]].embedding[1])]]
    IN SelectSeq(all, LAMBDA c : meetsThreshold(c.sim, th))

\* the keys of perNodeCandidates in insertion order (lines 646-647)
RECURSIVE candidateKeys(_, _)
candidateKeys(cs, n) ==
    IF n = 0 THEN <<>>
    ELSE LET ks == candidateKeys(cs, n - 1)
             seen == {ks[x] : x \in 1..Len(ks)}
             k1 == IF cs[n].a \in seen THEN ks ELSE Append(ks, cs[n].a)
         IN IF cs[n].b \in seen \cup {cs[n].a} THEN k1
            ELSE Append(k1, cs[n].b)

\* perNodeCandidates.get(id) (lines 648-649)
candidatesOf(cs, id) ==
    LET mine == SelectSeq(cs, LAMBDA c : c.a = id \/ c.b = id)
    IN [k \in 1..Len(mine) |->
          [otherId |-> IF mine[k].a = id THEN mine[k].b ELSE mine[k].a,
           sim |-> mine[k].sim]]

\* sims.reduce((a,b)=>a+b,0) over the first n candidates (line 664)
RECURSIVE sumSims(_, _)
sumSims(cands, n) ==
    IF n = 0 THEN Zero ELSE FAdd(sumSims(cands, n - 1), cands[n].sim)

\* sims.reduce((a,b)=>a + (b-mean)*(b-mean),0) (line 665)
RECURSIVE sumSquares(_, _, _)
sumSquares(cands, mean, n) ==
    IF n = 0 THEN Zero
    ELSE FAdd(sumSquares(cands, mean, n - 1),
              FMul(FSub(cands[n].sim, mean), FSub(cands[n].sim, mean)))

FMax(x, y) == IF FLess(x, y) THEN y ELSE x

\* candidates.length >= 4 (line 662)
minDynamicCandidates == 4

\* the literal 0.35 (line 667)
stdFactor == RoundQ(35, 100)

thresholdAdjAnyCount(cands, st) ==
    IF st.dynamicSimilarityPruning /\ Len(cands) >= 1
    THEN LET len == FromInt(Len(cands))
             mean == FDiv(sumSims(cands, Len(cands)), len)
             variance == FDiv(sumSquares(cands, mean, Len(cands)), len)
             std == FSqrt(variance)
         IN FMax(st.similarityThreshold, FAdd(mean, FMul(stdFactor, std)))
    ELSE st.similarityThreshold

\* thresholdAdj (lines 661-668)
thresholdAdj(cands, st) ==
    IF st.dynamicSimilarityPruning /\ Len(cands) >= minDynamicCandidates
    THEN LET len == FromInt(Len(cands))
             mean == FDiv(sumSims(cands, Len(cands)), len)
             variance == FDiv(sumSquares(cands, mean, Len(cands)), len)
             std == FSqrt(variance)
         IN FMax(st.similarityThreshold, FAdd(mean, FMul(stdFactor, std)))
    ELSE st.similarityThreshold

\* c inserted into a list sorted by descending sim, after its equals: the
\* sort of line 672 is stable
RECURSIVE insertDesc(_, _)
insertDesc(sorted, c) ==
    IF sorted = <<>> THEN <<c>>
    ELSE IF FLess(Head(sorted).sim, c.sim) THEN <<c>> \o sorted
    ELSE <<Head(sorted)>> \o insertDesc(Tail(sorted), c)

RECURSIVE sortDesc(_, _)
sortDesc(list, n) ==
    IF n = 0 THEN <<>> ELSE insertDesc(sortDesc(list, n - 1), list[n])

truncateNever(list, maxLinks) == list

\* lines 674-676
truncate(list, maxLinks) ==
    IF maxLinks > 0 /\ Len(list) > maxLinks
    THEN SubSeq(list, 1, maxLinks) ELSE list

\* the list a node contributes (lines 661-676)
prunedCandidates(cands, st) ==
    LET adj == thresholdAdj(cands, st)
        filtered == SelectSeq(cands, LAMBDA c : meetsThreshold(c.sim, adj))
    IN truncate(sortDesc(filtered, Len(filtered)), st.maxSimilarLinksPerNode)

alreadyAddedNever(added, a, b) == FALSE

alreadyAddedEndpoint(added, a, b) == \E p \in added : a \in p

\* addedPairs.has(pairKey), the key ordering the two ids (lines 681-682)
alreadyAdded(added, a, b) == {a, b} \in added

\* (similarity - threshold) / (1.0 - threshold) (lines 718-719)
normalizedSimilarity(similarity, st) ==
    IeeeDiv(FSub(similarity, st.similarityThreshold),
            FSub(One, st.similarityThreshold))

\* calculateThicknessFromSimilarity (lines 717-723)
calculateThicknessFromSimilarity(similarity, st) ==
    IeeeAdd(st.minLinkThickness,
            IeeeMul(normalizedSimilarity(similarity, st),
                    FSub(st.maxLinkThickness, st.minLinkThickness)))

\* the loop of lines 678-692 over the first n entries of one node's list;
\* acc is the pair of this.links and addedPairs
RECURSIVE emitList(_, _, _, _, _)
emitList(list, id, n, st, acc) ==
    IF n = 0 THEN acc
    ELSE LET prev == emitList(list, id, n - 1, st, acc)
             c == list[n]
         IN IF alreadyAdded(prev[2], id, c.otherId) THEN prev
            ELSE <<Append(prev[1],
                       [source |-> id, target |-> c.otherId,
                        type |-> "similarity", similarity |-> c.sim,
                        thickness |->
                            calculateThicknessFromSimilarity(c.sim, st)]),
                   prev[2] \cup {{id, c.otherId}}>>

\* perNodeCandidates.forEach over the first n keys (lines 658-693)
RECURSIVE emitNodes(_, _, _, _, _)
emitNodes(cs, keys, n, st, acc) ==
    IF n = 0 THEN acc
    ELSE LET list == prunedCandidates(candidatesOf(cs, keys[n]), st)
         IN emitList(list, keys[n], Len(list), st,
                     emitNodes(cs, keys, n - 1, st, acc))

\* this.links after createEmbeddingBasedLinks returned normally
createEmbeddingBasedLinks(na, ls, st) ==
    LET cs == sweepCandidates(na, manualLinkPairs(ls), st.similarityThreshold)
        keys == candidateKeys(cs, Len(cs))
    IN emitNodes(cs, keys, Len(keys), st, <<ls, {}>>)[1]

\* the manual links pushed by createTraditionalLinks (lines 696-715): the
\* files in enumeration order, the links of a file by target
RECURSIVE traditionalFrom(_, _)
traditionalFrom(s, t) ==
    IF s \notin vaultFiles THEN <<>>
    ELSE IF t \notin vaultFiles THEN traditionalFrom(s + 1, 1)
    ELSE (IF <<s, t>> \in manual
          THEN <<[source |-> s, target |-> t, type |-> "manual-link",
                  similarity |-> Zero]>>
          ELSE <<>>) \o traditionalFrom(s, t + 1)

createTraditionalLinks == traditionalFrom(1, 1)

\* loadGraphData is called: by onOpen for a new view, by refresh once the
\* renderer is initialized (lines 436, 725-731); it awaits the vector of
\* the first file
StartLoad ==
    /\ \/ load.pc = "idle"
       \/ load.pc \in {"done", "failed"} /\ load.initialized
    /\ load' = [load EXCEPT !.pc = "nodes", !.i = 1, !.nodeMap = <<>>,
                            !.prevNodes = nodes, !.prevLinks = links]
    /\ UNCHANGED <<stored, manual, settings, nodes, links>>
    /\ UNCHANGED <<cvars, tvars>>

\* lines 532-543 with the nodes nm: the view takes the nodes and the manual
\* links, then the similarity links unless the sweep throws
assemble(nm) ==
    LET ml == createTraditionalLinks
        wanted == /\ settings.useEmbeddings
                  /\ \E k \in 1..Len(nm) : nm[k].embedding # <<>>
    IN /\ nodes' = nm
       /\ IF wanted /\ sweepThrows(nm, manualLinkPairs(ml))
          THEN /\ links' = ml
               /\ load' = [load EXCEPT !.pc = "failed", !.nodeMap = <<>>]
          ELSE /\ links' = (IF wanted
                            THEN createEmbeddingBasedLinks(nm, ml, settings)
                            ELSE ml)
               /\ load' = [load EXCEPT !.pc = "linked", !.nodeMap = <<>>]

\* getEmbeddingLocally resolves for file f and the node is put in nodeMap
\* (lines 449-465); after the last file the build goes on to line 532
LoadNode(f) ==
    /\ load.pc = "nodes"
    /\ load.i = f
    /\ IF ~hasShape(cache)
       \* getFileStatus throws at line 451
       THEN /\ load' = [load EXCEPT !.pc = "failed", !.nodeMap = <<>>]
            /\ UNCHANGED <<nodes, links>>
       ELSE LET node == [id |-> f,
                         embedding |-> IF f \in DOMAIN stored
                                       THEN <<stored[f]>> ELSE <<>>,
                         status |-> getFileStatus(cache, f, mtime[f])]
                nm == Append(load.nodeMap, node)
            IN IF f + 1 \in vaultFiles
               THEN /\ load' = [load EXCEPT !.i = f + 1, !.nodeMap = nm]
                    /\ UNCHANGED <<nodes, links>>
               ELSE assemble(nm)
    /\ UNCHANGED <<stored, manual, settings>>
    /\ UNCHANGED <<cvars, tvars>>

\* loadGraphData returns to its caller; onOpen initializes the renderer
\* (lines 545-553, 439)
FinishLoad ==
    /\ load.pc = "linked"
    /\ load' = [load EXCEPT !.pc = "done", !.initialized = TRUE]
    /\ UNCHANGED <<stored, manual, settings, nodes, links>>
    /\ UNCHANGED <<cvars, tvars>>

\* vectors data.json can hold for a file: two directions of one dimension,
\* a vector of another dimension
GraphVectors == {<<1, 0>>, <<1, 1>>, <<1>>}

\* values of the similarity threshold: 0.5 and 0.9
GraphThresholds == {RoundQ(1, 2), RoundQ(9, 10)}

\* the sets of resolved [[links]] of the vault
ManualChoices == SUBSET {<<1, 2>>, <<3, 1>>}

\* a graph view is opened over a vault of NumNodes files, with any vectors
\* in data.json and any settings; the embedding service is idle
InitGraph ==
    /\ now = 1
    /\ mtime = [f \in 1..NumNodes |-> 0]
    /\ cache = EmptyCache
    /\ disk = <<>>
    /\ useLocal = FALSE
    /\ run = [r \in {1} |-> IdleRun]
    /\ clearPc = "idle"
    /\ displayed = FALSE
    /\ genAllDisabled = FALSE
    /\ updBtn = "none"
    /\ outcome = [f \in 1..NumNodes |-> "none"]
    /\ userActions = 0
    /\ \E S \in SUBSET (1..NumNodes) : stored \in [S -> GraphVectors]
    /\ manual \in ManualChoices
    /\ settings \in [useEmbeddings : BOOLEAN,
                      similarityThreshold : GraphThresholds,
                      maxSimilarLinksPerNode : 0..MaxLinksCap,
                      dynamicSimilarityPruning : BOOLEAN,
                      minLinkThickness : {DefaultSettings.minLinkThickness},
                      maxLinkThickness : {DefaultSettings.maxLinkThickness}]
    /\ nodes = <<>>
    /\ links = <<>>
    /\ load = IdleLoad
    /\ NoText

NextGraph ==
    \/ StartLoad
    \/ \E f \in vaultFiles : LoadNode(f)
    \/ FinishLoad

SpecGraph == InitGraph /\ [][NextGraph]_vars

\* the arrays of at most MaxDim small integers
CosineVectors == UNION {[1..n -> -MaxComp..MaxComp] : n \in 0..MaxDim}

\* a graph view is opened over two files with any two such arrays in
\* data.json, similarity links being enabled
InitCosine ==
    /\ now = 1
    /\ mtime = [f \in 1..2 |-> 0]
    /\ cache = EmptyCache
    /\ disk = <<>>
    /\ useLocal = FALSE
    /\ run = [r \in {1} |-> IdleRun]
    /\ clearPc = "idle"
    /\ displayed = FALSE
    /\ genAllDisabled = FALSE
    /\ updBtn = "none"
    /\ outcome = [f \in 1..2 |-> "none"]
    /\ userActions = 0
    /\ stored \in [1..2 -> CosineVectors]
    /\ manual = {}
    /\ settings = [DefaultSettings EXCEPT !.useEmbeddings = TRUE]
    /\ nodes = <<>>
    /\ links = <<>>
    /\ load = IdleLoad
    /\ NoText

SpecCosine == InitCosine /\ [][NextGraph]_vars

\* values of the similarity threshold that data.json can hold: the default
\* and 1
ThicknessThresholds == {DefaultSettings.similarityThreshold, One}

\* as InitCosine, with either threshold in the settings loaded from
\* data.json
InitThickness ==
    /\ now = 1
    /\ mtime = [f \in 1..2 |-> 0]
    /\ cache = EmptyCache
    /\ disk = <<>>
    /\ useLocal = FALSE
    /\ run = [r \in {1} |-> IdleRun]
    /\ clearPc = "idle"
    /\ displayed = FALSE
    /\ genAllDisabled = FALSE
    /\ updBtn = "none"
    /\ outcome = [f \in 1..2 |-> "none"]
    /\ userActions = 0
    /\ stored \in [1..2 -> CosineVectors]
    /\ manual = {}
    /\ \E th \in ThicknessThresholds :
          settings = [DefaultSettings EXCEPT !.useEmbeddings = TRUE,
                                             !.similarityThreshold = th]
    /\ nodes = <<>>
    /\ links = <<>>
    /\ load = IdleLoad
    /\ NoText

SpecThickness == InitThickness /\ [][NextGraph]_vars

(* ---------------- text normalisation ---------------- *)

\* A text is a sequence of lines and a line is the sequence of its
\* whitespace-separated tokens: the string is the tokens of each line joined
\* by one space and the lines joined by "\n".  These are the tokens that the
\* regular expressions of extractHeadingsAndFirstWords tell apart from
\* ordinary words: a run of one to six # characters, a front-matter fence, a
\* code fence (three backquotes, written with quotes here), a markdown link,
\* and the separator put between headings.
Hash == "#"

Fence == "---"

CodeFence == "'''"

LinkToken == "[l](u)"

Bar == "|"

\* the stop words (lines 372-374)
STOP ==
    {"the", "a", "an", "and", "or", "of", "in", "to", "for", "on", "with",
     "by", "at", "from", "this", "that", "is", "are", "be", "it", "as", "was",
     "were", "will", "can", "could", "should", "would", "have", "has", "had",
     "about", "note", "daily", "template", "summary", "tags"}

\* w.toLowerCase() on the words of the model
toLowerCase(w) == IF w = "The" THEN "the" ELSE w

\* ^#{1,6}\s+ : the line begins with a run of # followed by whitespace or,
\* for a line that holds nothing else, by the newline that ends it
startsHeading(line) == line # <<>> /\ line[1] = Hash

\* index of the first non-empty line after line i, or 0
RECURSIVE nextNonEmpty(_, _)
nextNonEmpty(lines, i) ==
    IF i >= Len(lines) THEN 0
    ELSE IF lines[i + 1] # <<>> THEN i + 1
    ELSE nextNonEmpty(lines, i + 1)

\* the loop over /^#{1,6}\s+(.+)$/gm (lines 351-357): the heading text is
\* the rest of the line; because \s+ also matches newlines, a line holding
\* only # takes the next non-empty line as its text
RECURSIVE headingsFrom(_, _)
headingsFrom(lines, i) ==
    IF i > Len(lines) THEN <<>>
    ELSE IF ~startsHeading(lines[i]) THEN headingsFrom(lines, i + 1)
    ELSE IF Len(lines[i]) > 1
         THEN <<Tail(lines[i])>> \o headingsFrom(lines, i + 1)
    ELSE LET j == nextNonEmpty(lines, i)
         IN IF j = 0 THEN <<>>
            ELSE <<lines[j]>> \o headingsFrom(lines, j + 1)

\* index of the first line that begins with a fence, from line i on, or 0
RECURSIVE fenceLine(_, _)
fenceLine(lines, i) ==
    IF i > Len(lines) THEN 0
    ELSE IF lines[i] # <<>> /\ lines[i][1] = Fence THEN i
    ELSE fenceLine(lines, i + 1)

\* line and position of the first fence at or after position p of line j,
\* or <<0, 0>>
RECURSIVE fenceAfter(_, _, _)
fenceAfter(lines, j, p) ==
    IF j > Len(lines) THEN <<0, 0>>
    ELSE IF p > Len(lines[j]) THEN fenceAfter(lines, j + 1, 1)
    ELSE IF lines[j][p] = Fence THEN <<j, p>>
    ELSE fenceAfter(lines, j, p + 1)

\* content.replace(/^---[\s\S]*?---\n?/m, '') (line 360): the first match
\* only, from a fence at the start of any line to the next fence, and the
\* newline after it if it ends its line.  What is left of the closing line
\* begins with a space: indented is the index of that line, or 0.
removeFrontmatter(lines) ==
    LET i == fenceLine(lines, 1)
        close == IF i = 0 THEN <<0, 0>> ELSE fenceAfter(lines, i, 2)
        j == close[1]
        rest == SubSeq(lines[j], close[2] + 1, Len(lines[j]))
        before == SubSeq(lines, 1, i - 1)
        after == SubSeq(lines, j + 1, Len(lines))
    IN IF i = 0 \/ j = 0 THEN [lines |-> lines, indented |-> 0]
       ELSE IF rest # <<>>
            THEN [lines |-> before \o <<rest>> \o after, indented |-> i]
       ELSE IF after # <<>> THEN [lines |-> before \o after, indented |-> 0]
       ELSE [lines |-> before \o <<<<>>>>, indented |-> 0]

\* .replace(/^#{1,6}\s+.*$/gm, '') (line 364), giving the tokens that are
\* left: a heading line goes; a line holding only # goes together with the
\* next non-empty line, and stays if it is the last line of the text
RECURSIVE bodyFrom(_, _, _)
bodyFrom(lines, i, indented) ==
    IF i > Len(lines) THEN <<>>
    ELSE IF i = indented \/ ~startsHeading(lines[i])
         THEN lines[i] \o bodyFrom(lines, i + 1, indented)
    ELSE IF Len(lines[i]) > 1 THEN bodyFrom(lines, i + 1, indented)
    ELSE IF i = Len(lines) THEN lines[i]
    ELSE LET j == nextNonEmpty(lines, i)
         IN IF j = 0 THEN <<>> ELSE bodyFrom(lines, j + 1, indented)

\* index of the first token t at or after position p, or 0
RECURSIVE indexFrom(_, _, _)
indexFrom(toks, t, p) ==
    IF p > Len(toks) THEN 0
    ELSE IF toks[p] = t THEN p
    ELSE indexFrom(toks, t, p + 1)

\* .replace(/```[\s\S]*?```/g, '') (line 365): a fence without a closing
\* fence stays
RECURSIVE removeCodeBlocks(_)
removeCodeBlocks(toks) ==
    LET p == indexFrom(toks, CodeFence, 1)
        q == IF p = 0 THEN 0 ELSE indexFrom(toks, CodeFence, p + 1)
    IN IF q = 0 THEN toks
       ELSE SubSeq(toks, 1, p - 1)
               \o removeCodeBlocks(SubSeq(toks, q + 1, Len(toks)))

\* .replace(/\[.*?\]\(.*?\)/g, '') (line 366)
removeLinks(toks) == SelectSeq(toks, LAMBDA t : t # LinkToken)

\* words.filter(w => !STOP.has(w.toLowerCase())) (line 375)
filterStop(words) == SelectSeq(words, LAMBDA w : toLowerCase(w) \notin STOP)

\* a first index that ignores the setting
startIdxOne(wordSkip) == 1

\* Math.max(0, wordSkip) (line 378)
startIdx(wordSkip) == IF wordSkip > 0 THEN wordSkip ELSE 0

\* filteredWords.slice(startIdx, endIdx) (lines 378-380)
selectWords(filteredWords, wordSkip, limit) ==
    LET from == startIdx(wordSkip)
        endIdx == IF Len(filteredWords) < from + limit
                  THEN Len(filteredWords) ELSE from + limit
    IN SubSeq(filteredWords, from + 1, endIdx)

\* headings.join(' | ') (line 388)
RECURSIVE joinHeadings(_)
joinHeadings(headings) ==
    IF headings = <<>> THEN <<>>
    ELSE IF Len(headings) = 1 THEN headings[1]
    ELSE headings[1] \o <<Bar>> \o joinHeadings(Tail(headings))

\* the words of the body that are no stop words (lines 358-375)
filteredWordsOf(text) ==
    LET fm == removeFrontmatter(text)
        bodyText == removeLinks(removeCodeBlocks(
                        bodyFrom(fm.lines, 1, fm.indented)))
    IN filterStop(bodyText)

\* extractHeadingsAndFirstWords(content, wordLimit) under the settings st
\* (lines 345-393); the result is trimmed, so an empty word window leaves
\* the headings alone
extractHeadingsAndFirstWords(text, limit, st) ==
    LET headings == headingsFrom(text, 1)
        firstWords == selectWords(filteredWordsOf(text),
                                  st.embeddingWordSkip, limit)
        headingText == joinHeadings(headings)
    IN IF st.excludeHeadingsFromEmbedding \/ headingText = <<>>
       THEN <<firstWords>>
       ELSE IF firstWords = <<>> THEN <<headingText>>
       ELSE <<headingText, <<>>, firstWords>>

\* the text the next call is given: the content of the file, then the text
\* the call before returned
nextInput ==
    IF cleanedText = <<>> THEN content ELSE cleanedText[Len(cleanedText)]

\* one call of extractHeadingsAndFirstWords (line 162)
Normalize ==
    /\ Len(cleanedText) < MaxPasses
    /\ cleanedText' = Append(cleanedText,
           extractHeadingsAndFirstWords(nextInput, wordLimit, textSettings))
    /\ UNCHANGED <<content, wordLimit, textSettings>>
    /\ UNCHANGED <<cvars, gvars>>

\* the tokens, lines and contents the normaliser is given
Vocabulary == {"w1", "w2", "the", "The", Hash, Fence, CodeFence, LinkToken}

Lines == UNION {[1..n -> Vocabulary] : n \in 0..MaxTokens}

Contents == UNION {[1..n -> Lines] : n \in 1..MaxLines}

\* a file of any content is normalised under any settings, with the default
\* word limit or a small one; the embedding service and the view are idle
InitNormalize ==
    /\ now = 1
    /\ mtime = [f \in 1..1 |-> 0]
    /\ cache = EmptyCache
    /\ disk = <<>>
    /\ useLocal = FALSE
    /\ run = [r \in {1} |-> IdleRun]
    /\ clearPc = "idle"
    /\ displayed = FALSE
    /\ genAllDisabled = FALSE
    /\ updBtn = "none"
    /\ outcome = [f \in 1..1 |-> "none"]
    /\ userActions = 0
    /\ NoView
    /\ content \in Contents
    /\ wordLimit \in (1..MaxWordLimit) \cup {defaultWordLimit}
    /\ textSettings \in [embeddingWordSkip : 0..MaxSkip,
                          excludeHeadingsFromEmbedding : BOOLEAN,
                          embeddingWordLimit : {defaultWordLimit}]
    /\ cleanedText = <<>>

NextNormalize == Normalize

SpecNormalize == InitNormalize /\ [][NextNormalize]_vars

\* the call of the generation run (line 162), which passes no wordLimit: a
\* file of any content is normalised under any settings, the configured
\* word limit being the default or a small one
InitExtract ==
    /\ now = 1
    /\ mtime = [f \in 1..1 |-> 0]
    /\ cache = EmptyCache
    /\ disk = <<>>
    /\ useLocal = FALSE
    /\ run = [r \in {1} |-> IdleRun]
    /\ clearPc = "idle"
    /\ displayed = FALSE
    /\ genAllDisabled = FALSE
    /\ updBtn = "none"
    /\ outcome = [f \in 1..1 |-> "none"]
    /\ userActions = 0
    /\ NoView
    /\ content \in Contents
    /\ wordLimit = defaultWordLimit
    /\ textSettings \in [embeddingWordSkip : 0..MaxSkip,
                          excludeHeadingsFromEmbedding : BOOLEAN,
                          embeddingWordLimit :
                              (1..MaxWordLimit) \cup {defaultWordLimit}]
    /\ cleanedText = <<>>

SpecExtract == InitExtract /\ [][NextNormalize]_vars

\* the settings tab and a graph view over the same vault: generation runs
\* whose provider answers, syncs, clearCache, and builds of the graph with
\* similarity links enabled
InitSync ==
    /\ now = 1
    /\ mtime = [f \in 1..NumFiles |-> 0]
    /\ cache = EmptyCache
    /\ disk = <<>>
    /\ useLocal = FALSE
    /\ run = [r \in {1} |-> IdleRun]
    /\ clearPc = "idle"
    /\ displayed = FALSE
    /\ genAllDisabled = FALSE
    /\ updBtn = "none"
    /\ outcome = [f \in 1..NumFiles |-> "none"]
    /\ userActions = 0
    /\ stored = EmptyMap
    /\ manual = {}
    /\ settings = [DefaultSettings EXCEPT !.useEmbeddings = TRUE]
    /\ nodes = <<>>
    /\ links = <<>>
    /\ load = IdleLoad
    /\ NoText

NextSync ==
    \/ Display
    \/ \E r \in Runs : \E b \in Buttons : Start(r, b)
    \/ \E r \in Runs : ReadOk(r)
    \/ \E r \in Runs : \E vec \in OpenAIVectors : OpenAIReturn(r, vec)
    \/ \E r \in Runs : DelayDone(r)
    \/ \E r \in Runs : FinalSaveDone(r)
    \/ \E r \in Runs : HandlerDone(r)
    \/ ClearCache
    \/ ClearSaveDone
    \/ SyncNow
    \/ StartLoad
    \/ \E f \in vaultFiles : LoadNode(f)
    \/ FinishLoad

SpecSync == InitSync /\ [][NextSync]_vars

(* ---------------- the claims ---------------- *)

\* a provider call of handler r is in flight
inFlight(r) == run[r].pc \in {"local", "openai"}

\* handler r is between beginProcessing and the end of its attempt on p
attempting(r, p) ==
    /\ run[r].pc \in {"read", "local", "openai"}
    /\ currentPath(r) = p

\* C1: getFileStatus is New when the cache has no record of the path,
\* Modified when the supplied modification time is strictly greater than
\* the record's embeddingGenerated and UpToDate otherwise, whatever the
\* other fields of the record, the clock and the rest of the cache are.
C1_StatusOf ==
    \A f \in vaultFiles : \A mt \in 0..MaxTime :
        LET st == getFileStatus(cache, f, mt)
        IN IF f \notin DOMAIN cache.files THEN st = "new"
           ELSE /\ st = "modified" <=> mt > cache.files[f].embeddingGenerated
                /\ st = "up-to-date" <=> mt <= cache.files[f].embeddingGenerated
                /\ st \in {"modified", "up-to-date"}
                /\ \A s \in Statuses :
                      getFileStatus(
                          [cache EXCEPT !.files[f].status = s,
                                        !.embeddings = EmptyMap],
                          f, mt) = st

\* a cached file edited after its embedding next to one that is not and
\* one that has no record
C1_Witness ==
    \E f, g \in vaultFiles :
        /\ f \in DOMAIN cache.files
        /\ mtime[f] > cache.files[f].embeddingGenerated
        /\ g \in DOMAIN cache.files
        /\ mtime[g] = cache.files[g].embeddingGenerated

\* C2: every record whose stored status is up-to-date has a non-empty
\* vector under the same path and an embeddingGenerated not older than its
\* lastModified.
C2_UpToDateHasVector ==
    \A p \in DOMAIN cache.files :
        cache.files[p].status = "up-to-date" =>
            /\ p \in DOMAIN cache.embeddings
            /\ Len(cache.embeddings[p]) > 0
            /\ cache.files[p].embeddingGenerated >= cache.files[p].lastModified

\* an edited file was embedded again and is up to date, after the cache
\* was loaded from a file written by an earlier session
C2_Witness ==
    /\ userActions >= 3
    /\ disk # <<>>
    /\ \E p \in DOMAIN cache.files :
          /\ cache.files[p].status = "up-to-date"
          /\ cache.files[p].lastModified > 0

\* C3: after an observed provider failure for a document, the quota error
\* included, the record of the document has status modified.
C3_FailureMarksModified ==
    \A p \in vaultFiles :
        outcome[p] \in {"error", "quota"} =>
            /\ p \in DOMAIN cache.files
            /\ cache.files[p].status = "modified"

\* C4: between runs, a document whose last attempt failed is reported new
\* or modified by the staleness check, so the next run selects it.
C4_FailedIsRetried ==
    (\A r \in Runs : run[r].pc = "idle") =>
        \A p \in vaultFiles :
            outcome[p] \in {"error", "quota", "empty"} =>
                getFileStatus(cache, p, mtime[p]) \in {"new", "modified"}

\* C5: once the provider failed with the quota error for the document at
\* position quotaAt, the run begins no later document: it is at its final
\* save or past it, still at that position, and the records it wrote are
\* those of the documents up to that position.
C5_QuotaStopsRun ==
    \A r \in Runs :
        run[r].quotaAt > 0 =>
            /\ run[r].pc \in {"finalsave", "sync"}
            /\ run[r].idx = run[r].quotaAt
            /\ run[r].touched =
                   {run[r].needsUpdate[k] : k \in 1..run[r].quotaAt}

\* the quota error hit with documents still pending and the run has ended
C5_Witness ==
    \E r \in Runs :
        /\ run[r].quotaAt > 0
        /\ run[r].quotaAt < Len(run[r].needsUpdate)
        /\ run[r].pc = "sync"

\* C6: at no time are two provider calls in flight.
C6_OneCallAtATime ==
    Cardinality({r \in Runs : inFlight(r)}) <= 1

\* the paths whose vector in memory is not in the persisted cache file
unpersisted ==
    {p \in DOMAIN cache.embeddings :
        \/ disk = <<>>
        \/ p \notin DOMAIN loadCache(disk).embeddings
        \/ loadCache(disk).embeddings[p] # cache.embeddings[p]
        \/ loadCache(disk).files[p] # cache.files[p]}

\* a handler is inside generateIncrementalEmbeddings
running(r) ==
    run[r].pc \in {"read", "local", "openai", "save", "delay", "finalsave"}

C8_EmptyIsFailure ==
    \A p \in vaultFiles :
        outcome[p] = "empty" =>
            /\ p \in DOMAIN cache.files
            /\ cache.files[p].status = "modified"

\* C9: a record left processing with no stored vector, no attempt on it
\* being under way, is never reported up-to-date by the staleness check.
C9_ProcessingIsStale ==
    \A p \in DOMAIN cache.files :
        ( /\ cache.files[p].status = "processing"
          /\ p \notin DOMAIN cache.embeddings
          /\ \A r \in Runs : ~attempting(r, p) )
        => getFileStatus(cache, p, mtime[p]) # "up-to-date"

\* C10: all vectors stored in the cache have the same length.
C10_OneDimension ==
    \A p, q \in DOMAIN cache.embeddings :
        Len(cache.embeddings[p]) = Len(cache.embeddings[q])

\* the cache file is missing or is not a cache of the expected shape
malformed(d) == d = <<>> \/ ~parses(d[1]) \/ ~hasShape(d[1])

\* C11: while the persisted cache file is missing, unparsable or of another
\* shape, the cache in memory is well formed, it is the empty cache whenever
\* no handler has written to it since it was loaded, and no generation run
\* has failed with an error escaping it.
C11_MalformedLoadsEmpty ==
    malformed(disk) =>
        /\ hasShape(cache)
        /\ (\A r \in Runs : run[r].pc = "idle") => cache = EmptyCache
        /\ \A r \in Runs : run[r].pc # "crashed"

\* C12: when the write issued by clearCache completes, the cache in memory
\* has no records and no vectors, the cache file holds the same empty
\* structure and the staleness check reports every document as new.
C12_ClearLeavesEmpty ==
    [][(clearPc = "saving" /\ clearPc' = "idle" /\ userActions' = userActions)
         => /\ cache' = EmptyCache
            /\ disk' = <<EmptyCache>>
            /\ \A f \in vaultFiles :
                  getFileStatus(cache', f, mtime'[f]) = "new"]_vars

\* the positions of the similarity links in the links of the view
simLinks == {k \in 1..Len(links) : links[k].type = "similarity"}

ends(k) == {links[k].source, links[k].target}

\* the candidates of the sweep over the nodes of the view, and the list a
\* node contributes after pruning
viewCandidates ==
    sweepCandidates(nodes, manualLinkPairs(links),
                    settings.similarityThreshold)

viewPruned(f) == prunedCandidates(candidatesOf(viewCandidates, f), settings)

\* a build with similarity links has completed
built == load.pc = "done" /\ settings.useEmbeddings /\ simLinks # {}

\* C13: every similarity link of the view has a similarity not below the
\* similarity threshold of the settings.
C13_EdgesMeetThreshold ==
    \A k \in simLinks :
        FGeq(links[k].similarity, settings.similarityThreshold)

\* dynamic pruning and the cap are on and a node with four candidates or
\* more lost some of them, which are in no link
C13_Witness ==
    /\ built
    /\ settings.dynamicSimilarityPruning
    /\ settings.maxSimilarLinksPerNode > 0
    /\ \E k \in 1..Len(viewCandidates) :
          /\ Len(candidatesOf(viewCandidates, viewCandidates[k].a))
                 >= minDynamicCandidates
          /\ \A j \in simLinks :
                ends(j) # {viewCandidates[k].a, viewCandidates[k].b}

\* C14: no two similarity links of the view join the same two documents.
C14_NoPairTwice ==
    \A j, k \in simLinks : j # k => ends(j) # ends(k)

\* a link whose two documents each kept the other after pruning
C14_Witness ==
    /\ built
    /\ \E k \in simLinks :
          LET ps == viewPruned(links[k].source)
              pt == viewPruned(links[k].target)
          IN /\ \E x \in 1..Len(ps) : ps[x].otherId = links[k].target
             /\ \E x \in 1..Len(pt) : pt[x].otherId = links[k].source

\* the pairs of positions the sweep compares over the nodes of the view
viewCompared == sweepFrom(nodes, manualLinkPairs(links), 1, 2)

\* C15: a similarity link joins two documents that both have a vector and
\* have no manual link in either direction, and the sweep compares no two
\* documents twice.
C15_OnlyUnlinkedVectorPairs ==
    /\ \A k \in simLinks :
          /\ nodes[links[k].source].embedding # <<>>
          /\ nodes[links[k].target].embedding # <<>>
          /\ <<links[k].source, links[k].target>> \notin manual
          /\ <<links[k].target, links[k].source>> \notin manual
    /\ LET cp == viewCompared
       IN \A i, j \in 1..Len(cp) :
             i # j => {cp[i][1], cp[i][2]} # {cp[j][1], cp[j][2]}

\* a manual link from a later to an earlier file, both with vectors similar
\* enough for a link, next to a file without a vector
C15_Witness ==
    /\ built
    /\ \E k \in 1..Len(nodes) : nodes[k].embedding = <<>>
    /\ \E p \in manual :
          /\ p[1] > p[2]
          /\ nodes[p[1]].embedding # <<>>
          /\ nodes[p[2]].embedding # <<>>
          /\ meetsThreshold(
                 calculateCosineSimilarity(nodes[p[1]].embedding[1],
                                           nodes[p[2]].embedding[1]),
                 settings.similarityThreshold)

\* the similarity links of document f, and those emitted while visiting f
degree(f) == Cardinality({k \in simLinks : f \in ends(k)})

originating(f) == Cardinality({k \in simLinks : links[k].source = f})

\* C16 as claimed: with a cap k > 0 no document is an endpoint of more than
\* k similarity links.
C16_BoundedDegree ==
    settings.maxSimilarLinksPerNode > 0 =>
        \A f \in vaultFiles : degree(f) <= settings.maxSimilarLinksPerNode

\* C16 as amended: with a cap k > 0 no document is the source of more than
\* k similarity links, and the view has at most k links per document with
\* candidates.
C16_BoundedOrigin ==
    settings.maxSimilarLinksPerNode > 0 =>
        /\ \A f \in vaultFiles :
              originating(f) <= settings.maxSimilarLinksPerNode
        /\ Cardinality(simLinks) <=
               settings.maxSimilarLinksPerNode * Len(nodes)

\* a document with more candidates above the threshold than the cap is the
\* source of exactly as many links as the cap allows
C16_Witness ==
    /\ built
    /\ settings.maxSimilarLinksPerNode > 0
    /\ \E f \in vaultFiles :
          /\ Len(candidatesOf(viewCandidates, f))
                 > settings.maxSimilarLinksPerNode
          /\ originating(f) = settings.maxSimilarLinksPerNode

\* positions i < j of two documents that both have a vector of one length,
\* are not linked manually and are similar enough for a link
qualifies(i, j) ==
    /\ i < j
    /\ nodes[i].embedding # <<>>
    /\ nodes[j].embedding # <<>>
    /\ <<i, j>> \notin manual
    /\ <<j, i>> \notin manual
    /\ ~cosineThrows(nodes[i].embedding[1], nodes[j].embedding[1])
    /\ meetsThreshold(
           calculateCosineSimilarity(nodes[i].embedding[1],
                                     nodes[j].embedding[1]),
           settings.similarityThreshold)

\* C17: a build with similarity links enabled never fails, and with pruning
\* off its links join every qualifying pair, whether or not other pairs
\* have vectors of unequal length.
C17_MismatchSkipsPair ==
    (settings.useEmbeddings /\ load.pc \in {"linked", "done", "failed"}) =>
        /\ load.pc # "failed"
        /\ (settings.maxSimilarLinksPerNode = 0
              /\ ~settings.dynamicSimilarityPruning) =>
                 \A i, j \in 1..Len(nodes) :
                     qualifies(i, j) => \E k \in simLinks : ends(k) = {i, j}

\* C18: when a build has failed, the nodes and the links of the view are
\* those the view had when the build began.
C18_NoPartialResult ==
    load.pc = "failed" =>
        /\ nodes = load.prevNodes
        /\ links = load.prevLinks

\* every component of vec is 0
isZeroVector(vec) == \A i \in 1..Len(vec) : vec[i] = 0

\* the build compared the vectors of the two files and threw, or compared
\* them and returned
comparedAndThrew == load.pc = "failed"

comparedAndReturned == load.pc \in {"linked", "done"}

\* C19 as claimed: calculateCosineSimilarity throws exactly when the two
\* vectors differ in length; for equal lengths it returns 0 when either
\* vector is all zeros, and it returns 1 for a non-zero vector and itself.
C19_CosineExact ==
    \A f, g \in DOMAIN stored :
        LET u == stored[f]
            v == stored[g]
        IN /\ cosineThrows(u, v) <=> Len(u) # Len(v)
           /\ (Len(u) = Len(v) /\ (isZeroVector(u) \/ isZeroVector(v)))
                 => calculateCosineSimilarity(u, v) = Zero
           /\ ~isZeroVector(u) => calculateCosineSimilarity(u, u) = One

\* C19 as amended: as above, except that for a non-zero vector and itself
\* the result is within 2^(2 - Precision) of 1; and the build fails exactly
\* when the two vectors it compares differ in length.
C19_CosineWithinRounding ==
    /\ \A f, g \in DOMAIN stored :
          LET u == stored[f]
              v == stored[g]
              tol == <<2^(Precision - 1), 3 - 2 * Precision>>
              c == calculateCosineSimilarity(u, u)
          IN /\ cosineThrows(u, v) <=> Len(u) # Len(v)
             /\ (Len(u) = Len(v) /\ (isZeroVector(u) \/ isZeroVector(v)))
                   => calculateCosineSimilarity(u, v) = Zero
             /\ ~isZeroVector(u) =>
                   /\ FGeq(c, FSub(One, tol))
                   /\ FGeq(FAdd(One, tol), c)
    /\ comparedAndThrew => Len(stored[1]) # Len(stored[2])
    /\ comparedAndReturned => Len(stored[1]) = Len(stored[2])

\* the build compared a non-zero vector with an equal one and the
\* similarity of the link is not 1
C19_Witness ==
    /\ comparedAndReturned
    /\ stored[1] = stored[2]
    /\ ~isZeroVector(stored[1])
    /\ \E k \in simLinks : links[k].similarity # One

\* the tokens of a text, line after line
RECURSIVE flatten(_)
flatten(text) ==
    IF text = <<>> THEN <<>> ELSE text[1] \o flatten(Tail(text))

\* the text holds something that one of the four removals of
\* extractHeadingsAndFirstWords would take out: a heading, a front-matter
\* block, a fenced code block, a link
containsHeading(text) ==
    \E i \in 1..Len(text) :
        startsHeading(text[i]) /\ (Len(text[i]) > 1 \/ i < Len(text))

containsFrontmatter(text) ==
    LET i == fenceLine(text, 1)
    IN i # 0 /\ fenceAfter(text, i, 2)[1] # 0

containsCodeBlock(text) ==
    LET p == indexFrom(flatten(text), CodeFence, 1)
    IN p # 0 /\ indexFrom(flatten(text), CodeFence, p + 1) # 0

containsLink(text) == indexFrom(flatten(text), LinkToken, 1) # 0

isPlain(text) ==
    /\ ~containsHeading(text)
    /\ ~containsFrontmatter(text)
    /\ ~containsCodeBlock(text)
    /\ ~containsLink(text)

\* the normaliser was applied to the content and then to its own result
normalizedTwice == Len(cleanedText) = 2

\* C20 as claimed: whatever the word skip and the word limit, when the
\* normalised text holds no heading, code block, link or front-matter,
\* normalising it again gives the same text.
C20_Idempotent ==
    (normalizedTwice /\ isPlain(cleanedText[1]))
        => cleanedText[2] = cleanedText[1]

\* C20 as amended: the same, for every word limit, when the word skip is 0
\* and the headings are left out of the text or the content has none.
C20_IdempotentWithoutSkip ==
    (/\ normalizedTwice
     /\ isPlain(cleanedText[1])
     /\ textSettings.embeddingWordSkip = 0
     /\ \/ textSettings.excludeHeadingsFromEmbedding
        \/ headingsFrom(content, 1) = <<>>)
        => cleanedText[2] = cleanedText[1]

\* a content that the normaliser changed, cutting it at the word limit, into
\* a non-empty plain text was normalised twice without a word skip
C20_Witness ==
    /\ normalizedTwice
    /\ isPlain(cleanedText[1])
    /\ textSettings.embeddingWordSkip = 0
    /\ textSettings.excludeHeadingsFromEmbedding
    /\ cleanedText[1] # content
    /\ Len(cleanedText[1][1]) = wordLimit
    /\ Len(filterStop(flatten(content))) > wordLimit
    /\ cleanedText[2] = cleanedText[1]

\* the unordered pairs of documents joined by a similarity link, and the
\* unordered pairs of the candidates cs
linkedPairs == {ends(k) : k \in simLinks}

pairsOf(cs) == {{cs[k].a, cs[k].b} : k \in 1..Len(cs)}

\* the documents that the pruned list pl keeps
keptBy(pl) == {pl[k].otherId : k \in 1..Len(pl)}

\* a build with similarity links enabled has returned
builtWithEmbeddings ==
    load.pc \in {"linked", "done"} /\ settings.useEmbeddings

\* C21: after a build, two documents are joined by a similarity link
\* exactly when they are a candidate pair (both have a vector, no manual
\* link, similarity not below the threshold) and one of them keeps the
\* other in its pruned list; with dynamic pruning off and no cap the linked
\* pairs are the candidate pairs.
C21_EmittedIffKept ==
    builtWithEmbeddings =>
        LET vc == viewCandidates
            kept == [f \in vaultFiles |->
                       keptBy(prunedCandidates(candidatesOf(vc, f), settings))]
        IN /\ \A a, b \in vaultFiles :
                 a < b =>
                    ({a, b} \in linkedPairs <=>
                        /\ qualifies(a, b)
                        /\ b \in kept[a] \/ a \in kept[b])
           /\ (~settings.dynamicSimilarityPruning
                   /\ settings.maxSimilarLinksPerNode = 0)
                 => linkedPairs = pairsOf(vc)

\* with a cap of 1, a document kept only the better of two candidates, and
\* the other candidate is linked to it all the same, having kept it
C21_Witness ==
    /\ built
    /\ settings.maxSimilarLinksPerNode = 1
    /\ \E a, b \in vaultFiles :
          /\ a # b
          /\ {a, b} \in linkedPairs
          /\ b \notin keptBy(viewPruned(a))
          /\ a \in keptBy(viewPruned(b))
          /\ Len(candidatesOf(viewCandidates, a)) >= 2

\* the candidates of document f in the view, and the threshold its list is
\* filtered with
viewCandidatesOf(f) == candidatesOf(viewCandidates, f)

effectiveThreshold(f) == thresholdAdj(viewCandidatesOf(f), settings)

\* the candidates of a list that pass the threshold th
passing(cands, th) == {k \in 1..Len(cands) : FGeq(cands[k].sim, th)}

\* mean + 0.35 * population standard deviation of the similarities of a
\* list of n candidates, as the program's arithmetic gives it
raisedThreshold(cands, n) ==
    FAdd(FDiv(sumSims(cands, n), FromInt(n)),
         FMul(RoundQ(35, 100),
              FSqrt(FDiv(sumSquares(cands, FDiv(sumSims(cands, n),
                                                FromInt(n)), n),
                         FromInt(n)))))

\* C22: after a build, the threshold a document's candidates are filtered
\* with is the configured one, unless dynamic pruning is on and the
\* document has four candidates or more: then it is the larger of the
\* configured one and mean + 0.35 * standard deviation.  It is never below
\* the configured one, and a document with fewer than four candidates
\* loses none to the filter: without a cap all of them are linked to it.
C22_EffectiveThreshold ==
    builtWithEmbeddings =>
        \A f \in vaultFiles :
            LET cands == viewCandidatesOf(f)
                eff == effectiveThreshold(f)
                th == settings.similarityThreshold
            IN /\ FGeq(eff, th)
               /\ (settings.dynamicSimilarityPruning /\ Len(cands) >= 4)
                     => \/ eff = th /\ FGeq(th, raisedThreshold(cands, Len(cands)))
                        \/ eff = raisedThreshold(cands, Len(cands))
                              /\ FGeq(eff, th)
               /\ (~settings.dynamicSimilarityPruning \/ Len(cands) < 4)
                     => /\ eff = th
                        /\ passing(cands, eff) = 1..Len(cands)
                        /\ settings.maxSimilarLinksPerNode = 0
                              => \A k \in 1..Len(cands) :
                                    {f, cands[k].otherId} \in linkedPairs

\* dynamic pruning is on; one document has four candidates, a threshold
\* raised above the configured one and loses a candidate to it, another
\* has fewer than four candidates and keeps them all
C22_Witness ==
    /\ built
    /\ settings.dynamicSimilarityPruning
    /\ \E f, g \in vaultFiles :
          /\ Len(viewCandidatesOf(f)) >= 4
          /\ FLess(settings.similarityThreshold, effectiveThreshold(f))
          /\ passing(viewCandidatesOf(f), effectiveThreshold(f))
                 # 1..Len(viewCandidatesOf(f))
          /\ Len(viewCandidatesOf(g)) \in 1..3
          /\ effectiveThreshold(g) = settings.similarityThreshold

\* C23: the thickness of every similarity link is a number, never NaN or
\* infinite; it is minLinkThickness when the threshold is 1, and otherwise
\* minLinkThickness + ((similarity - threshold) / (1 - threshold)) *
\* (maxLinkThickness - minLinkThickness).
C23_ThicknessDefined ==
    \A k \in simLinks :
        LET th == settings.similarityThreshold
            lo == settings.minLinkThickness
            hi == settings.maxLinkThickness
        IN /\ isFinite(links[k].thickness)
           /\ th = One => links[k].thickness = lo
           /\ th # One =>
                 links[k].thickness =
                     FAdd(lo, FMul(FDiv(FSub(links[k].similarity, th),
                                        FSub(One, th)),
                                   FSub(hi, lo)))

(* ---------------- progress reports ---------------- *)

\* the attempts a run has finished: each one advanced processed or failed
attempts(rr) == rr.processed + rr.failed

\* the step finishes an attempt of the run in r
finishesAttempt(r) ==
    /\ run[r].pc \in {"read", "local", "openai"}
    /\ attempts(run'[r]) = attempts(run[r]) + 1

\* C24: every step that finishes a document attempt of a run, with a stored
\* vector or with a failure, invokes onProgress exactly once with done equal
\* to the number of attempts made so far, and no other step of the run
\* invokes it
C24_ProgressPerAttempt ==
    [][\A r \in Runs :
         IF finishesAttempt(r)
         THEN run'[r].progress =
                  Append(run[r].progress, attempts(run'[r]))
         ELSE run'[r].pc \in {"idle", "crashed"}
              \/ run[r].pc \in {"idle", "crashed"}
              \/ run'[r].progress = run[r].progress]_vars

(* ---------------- the word window ---------------- *)

\* the words of the body in the text the first call returned: the whole
\* text when it has no heading line, else what follows the blank line
bodyWordsHanded ==
    LET out == cleanedText[1]
    IN IF Len(out) = 3 THEN out[3]
       ELSE IF \/ textSettings.excludeHeadingsFromEmbedding
               \/ headingsFrom(content, 1) = <<>>
       THEN out[1]
       ELSE <<>>

\* words[skip : skip + limit], clamped to the bounds of the list
window(words, skip, limit) ==
    LET last == IF Len(words) < skip + limit THEN Len(words) ELSE skip + limit
    IN [k \in 1..(IF last > skip THEN last - skip ELSE 0) |-> words[skip + k]]

\* C25: the body words of the text that the generation run hands to the
\* provider are the filtered words from the configured word skip on, at most
\* the configured embedding word limit of them, and none when the skip is at
\* or beyond the number of filtered words
C25_WindowIsConfigured ==
    Len(cleanedText) >= 1
        => bodyWordsHanded = window(filteredWordsOf(content),
                                    textSettings.embeddingWordSkip,
                                    textSettings.embeddingWordLimit)

(* ---------------- termination of a run ---------------- *)

\* generateIncrementalEmbeddings is suspended in an await
suspended(r) ==
    run[r].pc \in {"read", "local", "openai", "save", "delay", "finalsave"}

\* the promise of generateIncrementalEmbeddings has settled: it returned,
\* or an error escaped it
ended(r) == run[r].pc \in {"sync", "crashed"}

\* every document of needsUpdate was attempted once, in the order of the
\* list, which is the enumeration order of the vault
attemptedAll(rr) ==
    /\ rr.idx = Len(rr.needsUpdate)
    /\ attempts(rr) = Len(rr.needsUpdate)
    /\ rr.touched = {rr.needsUpdate[k] : k \in 1..Len(rr.needsUpdate)}
    /\ \A j, k \in 1..Len(rr.needsUpdate) :
           j < k => rr.needsUpdate[j] < rr.needsUpdate[k]

\* the handler instance of Init
theRun == 1

\* a run in flight eventually ends
C26_RunEnds == suspended(theRun) ~> ~suspended(theRun)

\* a run that ended without the quota error attempted every document
runsAttemptAll ==
    \A r \in Runs : (ended(r) /\ run[r].quotaAt = 0) => attemptedAll(run[r])

\* C26: when every provider call and storage operation eventually returns,
\* a generation run eventually ends, and a run that ended without a quota
\* error has attempted every document that was New or Modified at its start
\* exactly once, in the enumeration order of the vault
C26_TerminatesHavingAttemptedAll == C26_RunEnds /\ []runsAttemptAll

(* ---------------- convergence ---------------- *)

\* every document of the vault is reported up-to-date
allUpToDate ==
    /\ hasShape(cache)
    /\ \A f \in vaultFiles : getFileStatus(cache, f, mtime[f]) = "up-to-date"

\* the run of r has returned, every document of its list was given a
\* non-empty vector, and no document was modified since its scan
completedClean(r) ==
    /\ run[r].pc = "sync"
    /\ run[r].processed = Len(run[r].needsUpdate)
    /\ run[r].failed = 0
    /\ mtime = run[r].scanned

\* a run starts in r
starts(r) == run[r].pc \in {"idle", "crashed"} /\ run'[r].pc \notin {"idle", "crashed"}

\* C27: when a run returns in which every provider call returned a
\* non-empty vector and after whose start no document was modified, every
\* document is up-to-date; and a run that starts when every document is
\* up-to-date returns at once, with no provider call and with the cache
\* unchanged
C27_Converges ==
    [][\A r \in Runs :
         /\ (run[r].pc # "sync" /\ completedClean(r)') => allUpToDate'
         /\ (starts(r) /\ allUpToDate)
                => (run'[r].pc = "sync" /\ cache' = cache)]_vars

(* ---------------- clearCache during a run ---------------- *)

\* every path with a vector has a record
vectorsHaveRecords ==
    hasShape(cache) => DOMAIN cache.embeddings \subseteq DOMAIN cache.files

\* no error has escaped the loop of a run
noEscapedError == \A r \in Runs : run[r].pc = "crashed" => run[r].idx = 0

\* C28: however clearCache interleaves with a run that awaits the provider,
\* every path that has a vector in the cache has a record as well, and no
\* error escapes the loop of the run before its final saveCache
C28_ClearKeepsConsistent == vectorsHaveRecords /\ noEscapedError

(* ---------------- a document modified during its request ---------------- *)

\* the step commits the vector of the document the run of r was embedding
commits(r) ==
    /\ run[r].pc \in {"local", "openai"}
    /\ run'[r].processed = run[r].processed + 1

\* the document of the run of r was modified after its content was read
modifiedSinceRead(r) == mtime[currentPath(r)] > run[r].readVersion

\* C29: when the vector of a document is committed whose modification time
\* advanced after the run read its content, the staleness check reports the
\* document modified
C29_StaleAfterCommit ==
    [][\A r \in Runs :
         (commits(r) /\ modifiedSinceRead(r))
            => getFileStatus(cache', currentPath(r),
                             mtime'[currentPath(r)]) = "modified"]_vars

(* ---------------- the vectors the graph reads ---------------- *)

\* getEmbeddingLocally(f) returns a vector (main.ts 359-362)
visibleVector(f) == f \in DOMAIN stored

\* the embedding cache holds a vector for f
cachedVector(f) == hasShape(cache) /\ f \in DOMAIN cache.embeddings

\* C30: after any sequence of generation runs, syncs and clearCache, a
\* document has a vector visible to the graph build only if the embedding
\* cache holds a vector for it
C30_GraphReadsCache ==
    \A f \in vaultFiles : visibleVector(f) => cachedVector(f)

====
